---- MODULE Spec2Model ----
(***************************************************************************)
(* Roger, the command-line client of the Jeannie controller REST API       *)
(* (src/roger/roger.py).  One process invocation: parse the command line,  *)
(* build one request, perform the HTTP exchange, present the response and  *)
(* exit.                                                                   *)
(*                                                                         *)
(* Representation.                                                         *)
(*  - A JSON / Python value is a record tagged by t: "null" (None), "bool",*)
(*    "num", "float", "str", "list", "obj" (dict), and "pyobject" for a    *)
(*    Python object json.dumps rejects.                                    *)
(*  - A text is a sequence of atoms; an atom is either one of the          *)
(*    characters " ", "&", "=", "+", "%" or a chunk of characters that     *)
(*    urllib leaves alone.                                                 *)
(*  - A float is an IEEE-754 double, its significand a sequence of bits.   *)
(***************************************************************************)
EXTENDS Integers, Sequences, FiniteSets, TLC

VARIABLES
    argv,        \* the parsed command line (argparse Namespace)
    pc,          \* position of main(): Parse, Validate, Invoke, Await, Present, Exit
    invocation,  \* the command invocation built from argv
    requests,    \* HTTP requests handed to urlopen, in order
    net,         \* what the HTTP exchange did (the environment's choice)
    response,    \* the value the client operation returned to main()
    out,         \* lines printed on standard output
    err,         \* lines printed on the error stream
    exitStatus,  \* process exit status, -1 while running
    fault,       \* class of the unhandled exception, "none" if none
    configFile   \* state of CONFIG_FILE on disk

vars == <<argv, pc, invocation, requests, net, response, out, err, exitStatus, fault, configFile>>

-----------------------------------------------------------------------------
(* Bounds and program constants *)

MaxListLen == 75

TruncLimit == 50

DefaultLimit == 20

Timeout == 5

RogerVersion == <<"0.9.0">>

RogerName == <<"roger">>

JEANNIE_API_URL == <<"http://localhost:3000">>

-----------------------------------------------------------------------------
(* JSON / Python values *)

JNull == [t |-> "null"]

JBool(b) == [t |-> "bool", b |-> b]

JNum(n) == [t |-> "num", n |-> n]

JFloat(x) == [t |-> "float", x |-> x]

JStr(s) == [t |-> "str", s |-> s]

JList(items) == [t |-> "list", items |-> items]

JObj(f) == [t |-> "obj", f |-> f]

EmptyDict == JObj([k \in {} |-> JNull])

PyObject == [t |-> "pyobject"]

IsDict(v) == v.t = "obj"

\* k in d
Has(d, k) == k \in DOMAIN d.f

\* d.get(k, default)
Get(d, k, default) == IF k \in DOMAIN d.f THEN d.f[k] ELSE default

\* d[k] = v
Put(d, k, v) == JObj([x \in (DOMAIN d.f) \cup {k} |-> IF x = k THEN v ELSE d.f[x]])

\* Python truth value
Truthy(v) ==
    CASE v.t = "null" -> FALSE
      [] v.t = "bool" -> v.b
      [] v.t = "num" -> v.n # 0
      [] v.t = "float" -> v.x.m # <<>>
      [] v.t = "str" -> v.s # <<>>
      [] v.t = "list" -> v.items # <<>>
      [] v.t = "obj" -> DOMAIN v.f # {}
      [] OTHER -> TRUE

\* Optional[str] of argparse: None, or a text
None == [none |-> TRUE, s |-> <<>>]

Str(s) == [none |-> FALSE, s |-> s]

\* truth value of an Optional[str]
Given(o) == ~o.none /\ o.s # <<>>

\* json.dumps accepts the value
RECURSIVE Serializable(_)
Serializable(v) ==
    CASE v.t = "pyobject" -> FALSE
      [] v.t = "list" -> \A i \in DOMAIN v.items : Serializable(v.items[i])
      [] v.t = "obj" -> \A k \in DOMAIN v.f : Serializable(v.f[k])
      [] OTHER -> TRUE

-----------------------------------------------------------------------------
(* urllib.parse.urlencode *)

\* mutant: no escaping
QuoteAtom_Raw(a) == a

\* quote_plus of one atom
QuoteAtom(a) ==
    CASE a = " " -> "+"
      [] a = "&" -> "%26"
      [] a = "=" -> "%3D"
      [] a = "+" -> "%2B"
      [] a = "%" -> "%25"
      [] OTHER -> a

QuotePlus(s) == [i \in DOMAIN s |-> QuoteAtom(s[i])]

\* params: the dict as a sequence of <<key, value>> in insertion order
RECURSIVE Urlencode(_)
Urlencode(params) ==
    IF params = <<>> THEN <<>>
    ELSE LET p == Head(params)
             pair == QuotePlus(p[1]) \o <<"=">> \o QuotePlus(p[2])
         IN  IF Len(params) = 1 THEN pair
             ELSE pair \o <<"&">> \o Urlencode(Tail(params))

\* dict insertion of the optional filters, in the order of the if statements
FilterParams(content_type, creator, category) ==
    (IF Given(content_type) THEN << <<<<"type">>, content_type.s>> >> ELSE <<>>)
    \o (IF Given(creator) THEN << <<<<"creator">>, creator.s>> >> ELSE <<>>)
    \o (IF Given(category) THEN << <<<<"category">>, category.s>> >> ELSE <<>>)

\* str(int)
IntText(n) == <<ToString(n)>>

ContentSearchParams(query, fuzzy, content_type, creator, category, limit) ==
    << <<<<"q">>, query>>, <<<<"limit">>, IntText(limit)>> >>
    \o (IF fuzzy THEN << <<<<"fuzzy">>, <<"true">>>> >> ELSE <<>>)
    \o FilterParams(content_type, creator, category)

ContentListParams(content_type, creator, category, limit, offset) ==
    << <<<<"limit">>, IntText(limit)>>, <<<<"offset">>, IntText(offset)>> >>
    \o FilterParams(content_type, creator, category)

Endpoint(path, query) == [path |-> path, query |-> query]

-----------------------------------------------------------------------------
(* RogerCLI._make_request *)

\* the exception the exchange ends with, cls "none" when a JSON body is parsed.
\* urlopen wraps the OSError of connecting and sending in URLError, raises
\* HTTPError (a subclass of URLError) for a status outside 2xx and lets the
\* faults of reading the response through; json.loads raises JSONDecodeError.
ExchangeException(n) ==
    CASE n.kind = "refused" -> [cls |-> "URLError", msg |-> <<"[Errno 111] Connection refused">>]
      [] n.kind = "connect_timeout" -> [cls |-> "URLError", msg |-> <<"timed out">>]
      [] n.kind = "read_timeout" -> [cls |-> "TimeoutError", msg |-> <<"timed out">>]
      [] n.kind = "bad_status_line" -> [cls |-> "BadStatusLine", msg |-> <<"garbage">>]
      [] n.kind = "response" /\ ~(200 <= n.status /\ n.status < 300) ->
            [cls |-> "HTTPError", msg |-> <<"Internal Server Error">>]
      [] n.kind = "response" /\ n.body.t = "nonjson" ->
            [cls |-> "JSONDecodeError", msg |-> <<"Expecting value: line 1 column 1 (char 0)">>]
      [] OTHER -> [cls |-> "none", msg |-> <<>>]

\* isinstance(e, urllib.error.URLError)
IsURLError(cls) == cls \in {"URLError", "HTTPError"}

\* isinstance(e, Exception)
IsException(cls) ==
    cls \in {"URLError", "HTTPError", "TimeoutError", "BadStatusLine", "JSONDecodeError", "TypeError"}

ConnectPrefix == "Failed to connect to Jeannie API: "

RequestPrefix == "Request failed: "

FailureEnvelope(prefix, msg) ==
    JObj([success |-> JBool(FALSE), error |-> JStr(<<prefix>> \o msg), timestamp |-> JStr(<<"now">>)])

\* request_data = json.dumps(data).encode('utf-8') if data else None
RequestData(data) ==
    IF Truthy(data) THEN [present |-> TRUE, json |-> data] ELSE [present |-> FALSE, json |-> JNull]

\* urlopen without a timeout argument: the sockets block without limit
NoTimeout == -1

\* mutant: the request handed to urlopen without a timeout
HttpRequest_NoTimeout(api_url, endpoint, method, data) ==
    [url |-> [base |-> api_url, path |-> endpoint.path, query |-> endpoint.query],
     method |-> method,
     headers |-> {<<"Content-Type", "application/json">>},
     body |-> RequestData(data),
     timeout |-> NoTimeout]

\* the Request handed to urlopen
HttpRequest(api_url, endpoint, method, data) ==
    [url |-> [base |-> api_url, path |-> endpoint.path, query |-> endpoint.query],
     method |-> method,
     headers |-> {<<"Content-Type", "application/json">>},
     body |-> RequestData(data),
     timeout |-> Timeout]

\* the except clauses: the value returned, or the exception let through
Handle(exc) ==
    IF IsURLError(exc.cls)
    THEN [raised |-> "none", value |-> FailureEnvelope(ConnectPrefix, exc.msg)]
    ELSE IF IsException(exc.cls)
    THEN [raised |-> "none", value |-> FailureEnvelope(RequestPrefix, exc.msg)]
    ELSE [raised |-> exc.cls, value |-> JNull]

\* mutant: a request that failed is sent a second time
MakeRequest_Retry(api_url, endpoint, method, data, n) ==
    IF Truthy(data) /\ ~Serializable(data)
    THEN Handle([cls |-> "TypeError", msg |-> <<"Object is not JSON serializable">>])
            @@ [sent |-> <<>>]
    ELSE LET exc == ExchangeException(n)
             sent == <<HttpRequest(api_url, endpoint, method, data)>>
         IN  IF exc.cls = "none"
             THEN [raised |-> "none", value |-> n.body, sent |-> sent]
             ELSE Handle(exc) @@ [sent |-> sent \o sent]

\* _make_request against an exchange n: what it returns or raises, and the
\* requests it handed to urlopen
MakeRequest(api_url, endpoint, method, data, n) ==
    IF Truthy(data) /\ ~Serializable(data)
    THEN Handle([cls |-> "TypeError", msg |-> <<"Object is not JSON serializable">>])
            @@ [sent |-> <<>>]
    ELSE LET exc == ExchangeException(n)
             sent == <<HttpRequest(api_url, endpoint, method, data)>>
         IN  IF exc.cls = "none"
             THEN [raised |-> "none", value |-> n.body, sent |-> sent]
             ELSE Handle(exc) @@ [sent |-> sent]

-----------------------------------------------------------------------------
(* The domain operations of RogerCLI: the arguments each passes to _make_request *)

Call(path, query, method, data) ==
    [endpoint |-> Endpoint(path, query), method |-> method, data |-> data]

NoCall == Call("", <<>>, "NONE", JNull)

hello == Call("/api/hello", <<>>, "GET", JNull)

health == Call("/health", <<>>, "GET", JNull)

version_call == Call("/api/version", <<>>, "GET", JNull)

get_config == Call("/api/config", <<>>, "GET", JNull)

content_search(query, fuzzy, content_type, creator, category, limit) ==
    Call("/api/content/search",
         Urlencode(ContentSearchParams(query, fuzzy, content_type, creator, category, limit)),
         "GET", JNull)

content_list(content_type, creator, category, limit, offset) ==
    Call("/api/content",
         Urlencode(ContentListParams(content_type, creator, category, limit, offset)),
         "GET", JNull)

content_stats == Call("/api/content/stats", <<>>, "GET", JNull)

content_types == Call("/api/content/types", <<>>, "GET", JNull)

content_creators == Call("/api/content/creators", <<>>, "GET", JNull)

content_categories == Call("/api/content/categories", <<>>, "GET", JNull)

content_status == Call("/api/content/status", <<>>, "GET", JNull)

content_rescan == Call("/api/content/rescan", <<>>, "POST", JNull)

track_list == Call("/api/bitwig/tracks", <<>>, "GET", JNull)

track_current == Call("/api/bitwig/tracks/current", <<>>, "GET", JNull)

track_create(track_type, name, position) ==
    LET data == JObj([type |-> JStr(track_type), position |-> JNum(position)])
    IN  Call("/api/bitwig/tracks", <<>>, "POST",
             IF Given(name) THEN Put(data, "name", JStr(name.s)) ELSE data)

track_select(index) ==
    Call("/api/bitwig/tracks/select", <<>>, "POST", JObj([index |-> JNum(index)]))

track_navigate(direction) ==
    Call("/api/bitwig/tracks/navigate", <<>>, "POST", JObj([direction |-> JStr(<<direction>>)]))

track_rename(name) ==
    Call("/api/bitwig/tracks/rename", <<>>, "POST", JObj([name |-> JStr(name)]))

track_mute(mute) ==
    Call("/api/bitwig/tracks/mute", <<>>, "POST", JObj([mute |-> JBool(mute)]))

track_solo(solo) ==
    Call("/api/bitwig/tracks/solo", <<>>, "POST", JObj([solo |-> JBool(solo)]))

track_volume(volume) ==
    Call("/api/bitwig/tracks/volume", <<>>, "POST", JObj([volume |-> JFloat(volume)]))

track_pan(pan) ==
    Call("/api/bitwig/tracks/pan", <<>>, "POST", JObj([pan |-> JFloat(pan)]))

track_device(device_id, device_type) ==
    Call("/api/bitwig/tracks/device", <<>>, "POST",
         JObj([deviceId |-> JStr(device_id), deviceType |-> JStr(device_type)]))

\* RogerCLI.version after its request: the augmented result, or the fault
Version(result) ==
    IF ~IsDict(result) THEN [fault |-> "AttributeError", value |-> result]
    ELSE IF Truthy(Get(result, "success", JNull)) /\ Has(result, "data")
    THEN IF IsDict(result.f["data"])
         THEN [fault |-> "none",
               value |-> Put(result, "data", Put(result.f["data"], "roger", JStr(RogerVersion)))]
         ELSE [fault |-> "TypeError", value |-> result]
    ELSE [fault |-> "none", value |-> result]

-----------------------------------------------------------------------------
(* main(): normalisation and dispatch *)

Min(a, b) == IF a < b THEN a ELSE b

(* Python floats: IEEE-754 binary64, round to nearest, ties to even.  A float *)
(* is [neg, m, e] with value (-1)^neg * m * 2^e, m a sequence of bits, most   *)
(* significant first, without leading or trailing zeros and of at most        *)
(* MantissaBits bits (zero: m = <<>>, e = 0).  The exponent range and -0.0    *)
(* are not modelled.                                                          *)

MantissaBits == 53

Zeros(n) == [i \in 1..n |-> 0]

\* the one element of a singleton set; The({e(v) : v \in {x}}) is e(x) with x
\* evaluated once
The(S) == CHOOSE x \in S : TRUE

\* bits without the zeros in front
StripLeading(bits) ==
    The({IF \A i \in DOMAIN b : b[i] = 0 THEN <<>>
         ELSE SubSeq(b, CHOOSE i \in DOMAIN b : b[i] = 1 /\ \A j \in 1..(i - 1) : b[j] = 0, Len(b)) :
         b \in {bits}})

\* the number of trailing zero bits
TrailingZeros(bits) ==
    The({IF \A i \in DOMAIN b : b[i] = 0 THEN Len(b)
         ELSE Len(b) - (CHOOSE i \in DOMAIN b : b[i] = 1 /\ \A j \in (i + 1)..Len(b) : b[j] = 0) :
         b \in {bits}})

Float(neg, bits, e) ==
    The({IF b = <<>> THEN [neg |-> FALSE, m |-> <<>>, e |-> 0]
         ELSE [neg |-> neg, m |-> SubSeq(b, 1, Len(b) - z), e |-> e + z] :
         b \in {StripLeading(bits)}, z \in {TrailingZeros(bits)}})

\* the bits of a natural number
RECURSIVE BitsOfNat(_)
BitsOfNat(n) == IF n = 0 THEN <<>> ELSE BitsOfNat(n \div 2) \o <<n % 2>>

\* the natural number of the first n bits of b
RECURSIVE NatOfPrefix(_, _)
NatOfPrefix(b, n) == IF n = 0 THEN 0 ELSE 2 * NatOfPrefix(b, n - 1) + b[n]

\* the natural number of a short sequence of bits
NatOfBits(bits) == The({NatOfPrefix(b, Len(b)) : b \in {bits}})

\* float(n) of a small int
FromInt(n) == Float(n < 0, BitsOfNat(IF n < 0 THEN -n ELSE n), 0)

\* bits + 1: the last 0 becomes 1 and the ones after it 0
Increment(bits) ==
    The({IF \A i \in DOMAIN b : b[i] = 1 THEN <<1>> \o Zeros(Len(b))
         ELSE LET z == CHOOSE i \in DOMAIN b : b[i] = 0 /\ \A j \in (i + 1)..Len(b) : b[j] = 1
              IN  SubSeq(b, 1, z - 1) \o <<1>> \o Zeros(Len(b) - z) :
         b \in {bits}})

\* Long multiplication and division work on base-256 digits.
Base == 256

\* the digits of a sequence of bits, the bits of a sequence of digits
Digits(b) ==
    The({[i \in 1..(Len(padded) \div 8) |-> NatOfBits(SubSeq(padded, 8 * i - 7, 8 * i))] :
         padded \in {Zeros((8 - (Len(b) % 8)) % 8) \o b}})

Bits(digits) ==
    The({[j \in 1..(8 * Len(d)) |-> (d[(j + 7) \div 8] \div 2 ^ ((8 - (j % 8)) % 8)) % 2] :
         d \in {digits}})

\* long multiplication of digits d by a small natural k: the carry into digit i
RECURSIVE CarryInto(_, _, _)
CarryInto(d, k, i) ==
    IF i = Len(d) THEN 0 ELSE (d[i + 1] * k + CarryInto(d, k, i + 1)) \div Base

\* the digits of d * k
MulDigits(d, k) ==
    Digits(BitsOfNat(CarryInto(d, k, 0)))
        \o [i \in 1..Len(d) |-> (d[i] * k + CarryInto(d, k, i)) % Base]

\* long division of digits d by a small natural k: the remainder carried
\* into digit i
RECURSIVE RemInto(_, _, _)
RemInto(d, k, i) ==
    IF i = 1 THEN 0 ELSE (Base * RemInto(d, k, i - 1) + d[i - 1]) % k

\* the digits of d \div k, and d % k
DivDigits(d, k) ==
    [q |-> [i \in 1..Len(d) |-> (Base * RemInto(d, k, i) + d[i]) \div k],
     r |-> RemInto(d, k, Len(d) + 1)]

\* the bits of bits * k
MulSmall(b, k) == Bits(The({MulDigits(d, k) : d \in {Digits(b)}}))

\* the bits of bits \div k, and bits % k
DivSmall(b, k) ==
    The({[q |-> Bits(p.q), r |-> p.r] : p \in {The({DivDigits(d, k) : d \in {Digits(b)}})}})

\* bits * 2^e, with sticky telling that a nonzero part below was dropped,
\* rounded to MantissaBits bits
Round(neg, bits, e, sticky) ==
    The({LET L == Len(b)
             keep == SubSeq(b, 1, MantissaBits)
             below == \E i \in (MantissaBits + 2)..L : b[i] = 1
             up == b[MantissaBits + 1] = 1 /\ (below \/ sticky \/ keep[MantissaBits] = 1)
         IN  IF L <= MantissaBits THEN Float(neg, b, e)
             ELSE Float(neg, IF up THEN Increment(keep) ELSE keep, e + (L - MantissaBits)) :
         b \in {StripLeading(bits)}})

\* x * k, k a small natural
FMul(x, k) == The({Round(v.neg, MulSmall(v.m, k), v.e, FALSE) : v \in {x}})

\* x / k, k a small natural
FDiv(x, k) ==
    The({Round(v.neg, d.q, v.e - 2 * MantissaBits, d.r # 0) :
         v \in {x}, d \in {DivSmall(x.m \o Zeros(2 * MantissaBits), k)}})

\* float("<h / 100>"): the float nearest to a decimal with two decimals
FromHundredths(h) == FDiv(FromInt(h), 100)

\* |x| < |y|
MagLess(x, y) ==
    \E a \in {x.m \o Zeros(x.e - Min(x.e, y.e))}, b \in {y.m \o Zeros(y.e - Min(x.e, y.e))} :
        /\ y.m # <<>>
        /\ \/ x.m = <<>>
           \/ Len(a) < Len(b)
           \/ /\ Len(a) = Len(b)
              /\ \E i \in DOMAIN a : a[i] < b[i] /\ \A j \in 1..(i - 1) : a[j] = b[j]

\* x < y
FLess(x, y) ==
    \E u \in {x}, v \in {y} :
        IF u.neg # v.neg THEN u.neg
        ELSE IF u.neg THEN MagLess(v, u) ELSE MagLess(u, v)

\* min(a, b), max(a, b): the first argument unless the second is smaller, larger
FMin(a, b) == IF FLess(b, a) THEN b ELSE a

FMax(a, b) == IF FLess(a, b) THEN b ELSE a

\* abs(x)
Abs(x) == [x EXCEPT !.neg = FALSE]

\* the integer part of |x|, x of small magnitude
Whole(x) ==
    IF x.e >= 0 THEN NatOfBits(x.m \o Zeros(x.e))
    ELSE NatOfBits(SubSeq(x.m, 1, Len(x.m) + x.e))

\* int(x): truncation towards zero
FTrunc(x) == The({IF v.neg THEN -Whole(v) ELSE Whole(v) : v \in {x}})

One == FromInt(1)

\* int(x * 100)
Percent(x) == FTrunc(FMul(x, 100))

\* mutant: the percentage conversion without the clamp
NormalizeVolume_NoClamp(value) == IF FLess(One, value) THEN FDiv(value, 100) ELSE value

\* volume = args.value; if volume > 1.0: volume = volume / 100.0;
\* volume = max(0.0, min(1.0, volume))
NormalizeVolume(value) ==
    LET volume == IF FLess(One, value) THEN FDiv(value, 100) ELSE value
    IN  FMax(FromInt(0), FMin(One, volume))

\* mutant: the clamp without its lower bound
ClampPan_UpperOnly(value) == FMin(One, value)

\* pan = max(-1.0, min(1.0, args.value))
ClampPan(value) == FMax(FromInt(-1), FMin(One, value))

PanLabel(pan) ==
    IF pan = FromInt(0) THEN <<"center">>
    ELSE IF FLess(pan, FromInt(0)) THEN <<ToString(Percent(Abs(pan))), "% left">>
    ELSE <<ToString(Percent(pan)), "% right">>

Direction(sub) == IF sub = "prev" THEN "previous" ELSE sub

\* the client call the elif chain of main() makes for a command line
CallOf(a) ==
    CASE a.command = "hello" -> hello
      [] a.command = "health" -> health
      [] a.command = "version" -> version_call
      [] a.command = "config" -> get_config
      [] a.command = "content" /\ a.sub = "search" ->
            content_search(a.query, a.fuzzy, a.type, a.creator, a.category, a.limit)
      [] a.command = "content" /\ a.sub = "list" ->
            content_list(a.type, a.creator, a.category, a.limit, a.offset)
      [] a.command = "content" /\ a.sub = "stats" -> content_stats
      [] a.command = "content" /\ a.sub = "types" -> content_types
      [] a.command = "content" /\ a.sub = "creators" -> content_creators
      [] a.command = "content" /\ a.sub = "categories" -> content_categories
      [] a.command = "content" /\ a.sub = "status" -> content_status
      [] a.command = "content" /\ a.sub = "rescan" -> content_rescan
      [] a.command = "track" /\ a.sub = "list" -> track_list
      [] a.command = "track" /\ a.sub = "current" -> track_current
      [] a.command = "track" /\ a.sub = "create" -> track_create(a.type.s, a.name, a.position)
      [] a.command = "track" /\ a.sub = "select" -> track_select(a.index)
      [] a.command = "track" /\ a.sub \in {"next", "prev", "first", "last"} ->
            track_navigate(Direction(a.sub))
      [] a.command = "track" /\ a.sub = "rename" -> track_rename(a.name.s)
      [] a.command = "track" /\ a.sub = "mute" -> track_mute(~a.off)
      [] a.command = "track" /\ a.sub = "solo" -> track_solo(~a.off)
      [] a.command = "track" /\ a.sub = "volume" -> track_volume(NormalizeVolume(a.value))
      [] a.command = "track" /\ a.sub = "pan" -> track_pan(ClampPan(a.value))
      [] a.command = "track" /\ a.sub = "device" -> track_device(a.device_id, a.type.s)
      [] OTHER -> NoCall

\* the command invocation: verb, sub-verb, normalised arguments and the call
Invocation(a) ==
    [command |-> a.command,
     sub |-> a.sub,
     value |-> IF a.sub = "volume" THEN NormalizeVolume(a.value)
               ELSE IF a.sub = "pan" THEN ClampPan(a.value) ELSE FromInt(0),
     state |-> ~a.off,
     call |-> CallOf(a)]

NoInvocation == [command |-> "", sub |-> "", value |-> FromInt(0), state |-> FALSE, call |-> NoCall]

-----------------------------------------------------------------------------
(* Presentation *)

\* what a presentation step does: lines printed, the status of a sys.exit
\* (-1: none, execution continues) and the exception it raises
Res(o, e, x, f) == [out |-> o, err |-> e, exit |-> x, fault |-> f]

JsonLine(v) == [k |-> "json", v |-> v]

SuccessLine == [k |-> "success", v |-> JNull]

ErrorLine(msg) == [k |-> "error", v |-> msg]

Line(k, v) == [k |-> k, v |-> v]

print_response(resp, raw) ==
    IF raw THEN Res(<<JsonLine(resp)>>, <<>>, -1, "none")
    ELSE IF ~IsDict(resp) THEN Res(<<>>, <<>>, -1, "AttributeError")
    ELSE IF Truthy(Get(resp, "success", JNull))
    THEN Res(<<SuccessLine>> \o (IF Has(resp, "data") THEN <<JsonLine(resp.f["data"])>> ELSE <<>>),
             <<>>, -1, "none")
    ELSE Res(<<>>, <<ErrorLine(Get(resp, "error", JStr(<<"Unknown error">>)))>>, 1, "none")

\* the keys of a dict as a sequence (the order of the keys is not modelled)
RECURSIVE KeySeq(_)
KeySeq(S) ==
    IF S = {} THEN <<>>
    ELSE LET k == CHOOSE x \in S : TRUE IN <<JStr(<<k>>)>> \o KeySeq(S \ {k})

\* for x in v: the elements, or the TypeError of a value that is not iterable
\* (the atoms of an iterated text are its characters)
Iter(v) ==
    CASE v.t = "list" -> [items |-> v.items, fault |-> "none"]
      [] v.t = "obj" -> [items |-> KeySeq(DOMAIN v.f), fault |-> "none"]
      [] v.t = "str" -> [items |-> [i \in DOMAIN v.s |-> JStr(<<v.s[i]>>)], fault |-> "none"]
      [] OTHER -> [items |-> <<>>, fault |-> "TypeError"]

HasLen(v) == v.t \in {"list", "obj", "str"}

\* len(v)
LenOf(v) ==
    CASE v.t = "list" -> Len(v.items)
      [] v.t = "obj" -> Cardinality(DOMAIN v.f)
      [] v.t = "str" -> Len(v.s)
      [] OTHER -> 0

\* f"{score:.2f}" raises for a score that is no number
ScoreFault(score) ==
    IF score.t \in {"num", "float", "bool"} THEN "none"
    ELSE IF score.t = "str" THEN "ValueError" ELSE "TypeError"

ResultLine(item, scored) ==
    LET creator == Get(item, "creator", JStr(<<>>))
        fields == (IF scored THEN <<Get(item, "score", JFloat(One))>> ELSE <<>>)
                  \o <<Get(item, "name", JStr(<<"Unknown">>)),
                       Get(item, "contentType", JStr(<<"Unknown">>))>>
                  \o (IF Truthy(creator) THEN <<creator>> ELSE <<>>)
    IN  Line(IF scored THEN "result" ELSE "item", JList(fields))

\* the loop over the results of content search (scored) and content list
RECURSIVE RenderResults(_, _)
RenderResults(items, scored) ==
    IF items = <<>> THEN [lines |-> <<>>, fault |-> "none"]
    ELSE LET item == Head(items)
         IN  IF ~IsDict(item) THEN [lines |-> <<>>, fault |-> "AttributeError"]
             ELSE IF scored /\ ScoreFault(Get(item, "score", JFloat(One))) # "none"
             THEN [lines |-> <<>>, fault |-> ScoreFault(Get(item, "score", JFloat(One)))]
             ELSE LET rest == RenderResults(Tail(items), scored)
                  IN  [lines |-> <<ResultLine(item, scored)>> \o rest.lines, fault |-> rest.fault]

RenderSearch(data) ==
    IF ~IsDict(data) THEN Res(<<>>, <<>>, -1, "AttributeError")
    ELSE LET header == Line("found", JList(<<Get(data, "total", JNum(0)), Get(data, "query", JNull)>>))
             it == Iter(Get(data, "results", JList(<<>>)))
             r == RenderResults(it.items, TRUE)
         IN  IF it.fault # "none" THEN Res(<<header>>, <<>>, -1, it.fault)
             ELSE Res(<<header>> \o r.lines, <<>>, -1, r.fault)

RenderList(data) ==
    IF ~IsDict(data) THEN Res(<<>>, <<>>, -1, "AttributeError")
    ELSE LET results == Get(data, "results", JList(<<>>))
             header == Line("items", JList(<<Get(data, "total", JNum(0)), JNum(LenOf(results))>>))
             it == Iter(results)
             r == RenderResults(it.items, FALSE)
         IN  IF ~HasLen(results) THEN Res(<<>>, <<>>, -1, "TypeError")
             ELSE Res(<<header>> \o r.lines, <<>>, -1, r.fault)

EntryLines(items) == [i \in DOMAIN items |-> Line("entry", items[i])]

\* content types: every entry is printed
RenderTypes(data) ==
    LET it == Iter(data)
    IN  Res(<<Line("types_header", JNull)>> \o EntryLines(it.items), <<>>, -1, it.fault)

\* data[:50] of a dict raises TypeError, or KeyError where slices are hashable
SliceFaults == {"TypeError", "KeyError"}

\* mutant: the note printed from TruncLimit entries on
RenderListing_NoteAtLimit(what, data) ==
    IF ~HasLen(data) THEN {Res(<<>>, <<>>, -1, "TypeError")}
    ELSE LET header == Line(what, JNum(LenOf(data)))
             items == Iter(data).items
             shown == SubSeq(items, 1, Min(TruncLimit, Len(items)))
             more == IF Len(items) >= TruncLimit
                     THEN <<Line("more", JNum(Len(items) - TruncLimit))>> ELSE <<>>
         IN  IF data.t = "obj" THEN {Res(<<header>>, <<>>, -1, f) : f \in SliceFaults}
             ELSE {Res(<<header>> \o EntryLines(shown) \o more, <<>>, -1, "none")}

\* content creators / content categories (what names the header): the set of
\* possible results
RenderListing(what, data) ==
    IF ~HasLen(data) THEN {Res(<<>>, <<>>, -1, "TypeError")}
    ELSE LET header == Line(what, JNum(LenOf(data)))
             items == Iter(data).items
             shown == SubSeq(items, 1, Min(TruncLimit, Len(items)))
             more == IF Len(items) > TruncLimit
                     THEN <<Line("more", JNum(Len(items) - TruncLimit))>> ELSE <<>>
         IN  IF data.t = "obj" THEN {Res(<<header>>, <<>>, -1, f) : f \in SliceFaults}
             ELSE {Res(<<header>> \o EntryLines(shown) \o more, <<>>, -1, "none")}

TrackLine(track) ==
    Line("track", JList(<<Get(track, "index", JStr(<<"?">>)),
                          JBool(Truthy(Get(track, "muted", JNull))),
                          JBool(Truthy(Get(track, "soloed", JNull))),
                          Get(track, "name", JStr(<<"Unnamed">>))>>))

RECURSIVE RenderTracks(_)
RenderTracks(tracks) ==
    IF tracks = <<>> THEN [lines |-> <<>>, fault |-> "none"]
    ELSE IF ~IsDict(Head(tracks)) THEN [lines |-> <<>>, fault |-> "AttributeError"]
    ELSE LET rest == RenderTracks(Tail(tracks))
         IN  [lines |-> <<TrackLine(Head(tracks))>> \o rest.lines, fault |-> rest.fault]

RenderTrackList(data) ==
    IF ~IsDict(data) THEN Res(<<>>, <<>>, -1, "AttributeError")
    ELSE LET tracks == Get(data, "tracks", JList(<<>>))
             r == RenderTracks(Iter(tracks).items)
         IN  IF ~HasLen(tracks) THEN Res(<<>>, <<>>, -1, "TypeError")
             ELSE Res(<<Line("tracks_header", JNum(LenOf(tracks)))>> \o r.lines, <<>>, -1, r.fault)

RenderTrackCurrent(data) ==
    IF ~IsDict(data) THEN Res(<<Line("current_header", JNull)>>, <<>>, -1, "AttributeError")
    ELSE Res(<<Line("current_header", JNull),
               Line("current_name", Get(data, "name", JStr(<<"Unknown">>))),
               Line("current_position", Get(data, "position", JStr(<<"?">>))),
               Line("current_muted", Get(data, "muted", JBool(FALSE))),
               Line("current_soloed", Get(data, "soloed", JBool(FALSE)))>>, <<>>, -1, "none")

\* the one-line confirmations that read data.get('name', 'Unknown')
RenderNamed(k, prefix, data) ==
    IF ~IsDict(data) THEN Res(<<>>, <<>>, -1, "AttributeError")
    ELSE Res(<<Line(k, JList(prefix \o <<Get(data, "name", JStr(<<"Unknown">>))>>))>>, <<>>, -1, "none")

Say(k, v) == Res(<<Line(k, v)>>, <<>>, -1, "none")

\* the commands whose bespoke rendering reads response['data']
ReadsData(a) ==
    \/ a.command = "content" /\ a.sub \in {"search", "list", "types", "creators", "categories"}
    \/ a.command = "track" /\ a.sub \in {"list", "current", "select", "next", "prev", "first", "last"}

\* the commands whose bespoke rendering needs response.get('success') alone
ConfirmsOnly(a) ==
    a.command = "track" /\ a.sub \in {"create", "rename", "mute", "solo", "volume", "pan", "device"}

\* the bespoke rendering of a success envelope
Bespoke(a, inv, resp) ==
    LET data == Get(resp, "data", JNull)
    IN  CASE a.sub = "search" -> {RenderSearch(data)}
          [] a.command = "content" /\ a.sub = "list" -> {RenderList(data)}
          [] a.sub = "types" -> {RenderTypes(data)}
          [] a.sub = "creators" -> RenderListing("creators_header", data)
          [] a.sub = "categories" -> RenderListing("categories_header", data)
          [] a.command = "track" /\ a.sub = "list" -> {RenderTrackList(data)}
          [] a.sub = "current" -> {RenderTrackCurrent(data)}
          [] a.sub = "create" ->
                {Say("created", JList(<<JStr(a.type.s),
                        IF Given(a.name) THEN JStr(a.name.s)
                        ELSE JStr(<<"New ">> \o a.type.s \o <<" track">>)>>))}
          [] a.sub = "select" -> {RenderNamed("selected", <<JNum(a.index)>>, data)}
          [] a.sub \in {"next", "prev"} -> {RenderNamed("moved", <<>>, data)}
          [] a.sub = "first" -> {RenderNamed("moved_first", <<>>, data)}
          [] a.sub = "last" -> {RenderNamed("moved_last", <<>>, data)}
          [] a.sub = "rename" -> {Say("renamed", JStr(a.name.s))}
          [] a.sub = "mute" -> {Say(IF inv.state THEN "muted" ELSE "unmuted", JNull)}
          [] a.sub = "solo" -> {Say(IF inv.state THEN "solo_enabled" ELSE "solo_disabled", JNull)}
          [] a.sub = "volume" -> {Say("volume_set", JStr(<<ToString(Percent(inv.value)), "%">>))}
          [] a.sub = "pan" -> {Say("pan_set", JStr(PanLabel(inv.value)))}
          [] a.sub = "device" -> {Say("device_inserted", JList(<<JStr(a.device_id), JStr(a.type.s)>>))}

\* the presentation branch of main() for a command that made a request
PresentResponse(a, inv, resp) ==
    IF ~(ReadsData(a) \/ ConfirmsOnly(a)) THEN {print_response(resp, a.raw)}
    ELSE IF ~IsDict(resp) THEN {Res(<<>>, <<>>, -1, "AttributeError")}
    ELSE IF Truthy(Get(resp, "success", JNull)) /\ (ConfirmsOnly(a) \/ Has(resp, "data"))
    THEN Bespoke(a, inv, resp)
    ELSE {print_response(resp, a.raw)}

-----------------------------------------------------------------------------
(* Command lines: the Namespace argparse builds, with its defaults *)

BaseArgv ==
    [command |-> "", sub |-> "", raw |-> FALSE, api_url |-> JEANNIE_API_URL,
     query |-> <<>>, fuzzy |-> FALSE, type |-> None, creator |-> None, category |-> None,
     limit |-> DefaultLimit, offset |-> 0, name |-> None, position |-> -1, index |-> 0,
     off |-> FALSE, value |-> FromInt(0), device_id |-> <<>>]

With(command, sub) == [BaseArgv EXCEPT !.command = command, !.sub = sub]

\* values of an optional filter: not given, given empty, given with characters
\* that urlencode must escape
FilterValues == {None, Str(<<>>), Str(<<"a", " ", "b", "&", "type", "=", "x">>)}

\* the volume and pan values typed, in hundredths
VolumeHundredths == {-1000, 0, 29, 30, 50, 100, 101, 200, 2900, 7500, 10000, 15000}

PanHundredths == {-200, -100, -30, -29, 0, 29, 50, 100, 200}

\* type=float
VolumeInputs == {FromHundredths(h) : h \in VolumeHundredths}

PanInputs == {FromHundredths(h) : h \in PanHundredths}

Commands ==
    {With(c, "") : c \in {"", "hello", "health", "version", "config", "update-config",
                          "content", "track"}}
    \cup {With("content", s) : s \in {"stats", "types", "creators", "categories", "status", "rescan"}}
    \cup {[With("content", "search") EXCEPT !.query = <<"bass", " ", "drum">>, !.fuzzy = z,
              !.type = t, !.creator = c, !.category = g] :
            z \in BOOLEAN, t \in FilterValues, c \in FilterValues, g \in FilterValues}
    \cup {[With("content", "list") EXCEPT !.type = t, !.creator = c, !.category = g] :
            t \in FilterValues, c \in FilterValues, g \in FilterValues}
    \cup {With("track", s) : s \in {"list", "current", "next", "prev", "first", "last"}}
    \cup {[With("track", "create") EXCEPT !.type = Str(<<t>>), !.name = n] :
            t \in {"instrument", "audio"}, n \in {None, Str(<<>>), Str(<<"Lead">>)}}
    \cup {[With("track", "select") EXCEPT !.index = i] : i \in {0, 3}}
    \cup {[With("track", "rename") EXCEPT !.name = Str(<<"Lead">>)]}
    \cup {[With("track", s) EXCEPT !.off = o] : s \in {"mute", "solo"}, o \in BOOLEAN}
    \cup {[With("track", "volume") EXCEPT !.value = v] : v \in VolumeInputs}
    \cup {[With("track", "pan") EXCEPT !.value = v] : v \in PanInputs}
    \cup {[With("track", "device") EXCEPT !.device_id = <<"ABCD1234">>, !.type = Str(<<"vst3">>)]}

Argvs == {[c EXCEPT !.raw = r] : c \in Commands, r \in BOOLEAN}

-----------------------------------------------------------------------------
(* The remote service and the network *)

Absent == [t |-> "absent"]

NonJson == [t |-> "nonjson"]

ListLens == {0, 1, 30, TruncLimit - 1, TruncLimit, TruncLimit + 1, MaxListLen}

ListOf(n) == JList([i \in 1..n |-> JNum(i)])

XOne == JObj([x |-> JNum(1)])

RichData ==
    JObj([name |-> JStr(<<"Lead">>), total |-> JNum(1), query |-> JStr(<<"bass">>),
          results |-> JList(<<JObj([name |-> JStr(<<"Bass">>), creator |-> JStr(<<"Moog">>)])>>),
          tracks |-> JList(<<JObj([index |-> JNum(0), name |-> JStr(<<"Lead">>),
                                   muted |-> JBool(TRUE)])>>)])

DataValues == {Absent, XOne, RichData, JNull, JNum(7)} \cup {ListOf(n) : n \in ListLens}

Boom == JStr(<<"boom">>)

\* a JSON object with the members that are not Absent
Members(success, data, error) ==
    LET m == [success |-> success, data |-> data, error |-> error]
    IN  JObj([k \in {x \in DOMAIN m : m[x] # Absent} |-> m[k]])

Envelopes ==
    {Members(s, d, e) : s \in {JBool(TRUE), JBool(FALSE), Absent}, d \in DataValues,
                        e \in {Absent, Boom}}

BoomEnvelope == Members(JBool(FALSE), Absent, Boom)

Bodies == Envelopes \cup {JNull, JList(<<>>), JStr(<<"ok">>), NonJson}

Exchange(kind, status, body) == [kind |-> kind, status |-> status, body |-> body]

NoExchange == Exchange("none", 0, JNull)

Outcomes ==
    {Exchange(k, 0, JNull) : k \in {"refused", "connect_timeout", "read_timeout", "bad_status_line"}}
    \cup {Exchange("response", 200, b) : b \in Bodies}
    \cup {Exchange("response", 500, b) : b \in {BoomEnvelope, NonJson}}

\* what update_config meets: PyYAML missing, the write failing, or success
ConfigOutcomes == {"ok", "import_error", "io_error"}

-----------------------------------------------------------------------------
(* The process *)

Unset == [t |-> "unset"]

\* a request was handed to urlopen
Requested == Len(requests) >= 1

Init ==
    /\ argv \in Argvs
    /\ pc = "Parse"
    /\ invocation = NoInvocation
    /\ requests = <<>>
    /\ net = NoExchange
    /\ response = Unset
    /\ out = <<>>
    /\ err = <<>>
    /\ exitStatus = -1
    /\ fault = "none"
    /\ configFile = "untouched"

\* an unhandled exception: traceback on the error stream, exit status 1
Crash(f) ==
    /\ fault' = f
    /\ err' = err \o <<Line("traceback", JStr(<<f>>))>>
    /\ exitStatus' = 1
    /\ pc' = "Exit"

\* args = parser.parse_args(); help and exit 0 when there is no command
Parse ==
    /\ pc = "Parse"
    /\ IF argv.command = ""
       THEN /\ out' = out \o <<Line("help", JStr(<<"roger">>))>>
            /\ exitStatus' = 0
            /\ pc' = "Exit"
       ELSE /\ pc' = "Validate"
            /\ UNCHANGED <<out, exitStatus>>
    /\ UNCHANGED <<argv, invocation, requests, net, response, err, fault, configFile>>

\* mutant: only content asks for its sub-command
NeedsSubcommand_ContentOnly(a) == a.command = "content" /\ a.sub = ""

\* not hasattr(args, 'content_command') or not args.content_command, and the
\* same for track_command
NeedsSubcommand(a) == a.command \in {"content", "track"} /\ a.sub = ""

\* the elif chain up to the client call: sub-command help, normalisation
Validate ==
    /\ pc = "Validate"
    /\ IF NeedsSubcommand(argv)
       THEN /\ out' = out \o <<Line("help", JStr(<<argv.command>>))>>
            /\ exitStatus' = 0
            /\ pc' = "Exit"
            /\ UNCHANGED invocation
       ELSE /\ invocation' = Invocation(argv)
            /\ pc' = "Invoke"
            /\ UNCHANGED <<out, exitStatus>>
    /\ UNCHANGED <<argv, requests, net, response, err, fault, configFile>>

\* the attributes __init__ sets on the instance
InstanceAttributes == {"api_url", "name", "version"}

\* the attribute of cli that main() calls for a command
MethodName(inv) ==
    CASE inv.command = "config" -> "get_config"
      [] inv.command = "update-config" -> "update_config"
      [] inv.command = "content" -> "content_" \o inv.sub
      [] inv.command = "track" /\ inv.sub \in {"next", "prev", "first", "last"} -> "track_navigate"
      [] inv.command = "track" -> "track_" \o inv.sub
      [] OTHER -> inv.command

\* cli.<name>(...) reaches the method unless an instance attribute of that
\* name shadows it: the attribute is a str, and calling it raises TypeError
Callable(name) == name \notin InstanceAttributes

\* exchanges in which the remote service never answers: the connection is
\* not accepted, or it is and no response comes
Silent == {"connect_timeout", "read_timeout"}

\* urlopen(req, timeout=...) comes back, with a response or an exception: at
\* once when the service answers or refuses, and from a service that never
\* answers only when the sockets have a timeout
Completes(req, n) == n.kind \notin Silent \/ req.timeout # NoTimeout

\* the rest of the client operation once the exchange n is over: what
\* _make_request returns to the operation, and the operation to main()
Return(n) ==
    LET c == invocation.call
        r == MakeRequest(argv.api_url, c.endpoint, c.method, c.data, n)
        v == IF invocation.command = "version" THEN Version(r.value)
             ELSE [fault |-> "none", value |-> r.value]
    IN  IF r.raised # "none"
        THEN Crash(r.raised) /\ UNCHANGED response
        ELSE IF v.fault # "none"
        THEN Crash(v.fault) /\ UNCHANGED response
        ELSE /\ response' = v.value
             /\ pc' = "Present"
             /\ UNCHANGED <<err, exitStatus, fault>>

\* the client operation of the command up to urlopen, against an exchange the
\* environment picks
Invoke ==
    /\ pc = "Invoke"
    /\ invocation.command # "update-config"
    /\ IF ~Callable(MethodName(invocation))
       THEN Crash("TypeError") /\ UNCHANGED <<net, requests, response>>
       ELSE \E n \in Outcomes :
        LET c == invocation.call
            r == MakeRequest(argv.api_url, c.endpoint, c.method, c.data, n)
        IN  /\ net' = n
            /\ requests' = requests \o r.sent
            /\ pc' = "Await"
            /\ UNCHANGED <<response, err, exitStatus, fault>>
    /\ UNCHANGED <<argv, invocation, out, configFile>>

\* the client operation blocked in urlopen, still in the Invoke phase, until
\* the exchange is over; nothing to wait for when no request was handed over
Await ==
    /\ pc = "Await"
    /\ Requested => Completes(requests[Len(requests)], net)
    /\ Return(net)
    /\ UNCHANGED <<argv, invocation, requests, net, out, configFile>>

\* RogerCLI.update_config
UpdateConfig ==
    /\ pc = "Invoke"
    /\ invocation.command = "update-config"
    /\ \E o \in ConfigOutcomes :
        CASE o = "ok" ->
                /\ configFile' = "written"
                /\ out' = out \o <<Line("config_updated", JNull)>>
                /\ response' = JBool(TRUE)
                /\ UNCHANGED err
          [] o = "import_error" ->
                /\ err' = err \o <<Line("no_yaml", JNull)>>
                /\ response' = JBool(FALSE)
                /\ UNCHANGED <<configFile, out>>
          [] o = "io_error" ->
                /\ configFile' \in {"untouched", "truncated"}
                /\ err' = err \o <<Line("config_failed", JNull)>>
                /\ response' = JBool(FALSE)
                /\ UNCHANGED out
    /\ pc' = "Present"
    /\ UNCHANGED <<argv, invocation, requests, net, exitStatus, fault>>

\* the rest of the command's branch, then the end of main()
Present ==
    /\ pc = "Present"
    /\ IF invocation.command = "update-config"
       THEN /\ out' = IF response.b
                      THEN out \o <<Line("config_written", JNull), Line("auto_detect", JNull)>>
                      ELSE out
            /\ exitStatus' = IF response.b THEN 0 ELSE 1
            /\ pc' = "Exit"
            /\ UNCHANGED <<err, fault>>
       ELSE \E r \in PresentResponse(argv, invocation, response) :
            /\ out' = out \o r.out
            /\ IF r.fault # "none"
               THEN Crash(r.fault)
               ELSE /\ err' = err \o r.err
                    /\ exitStatus' = IF r.exit = -1 THEN 0 ELSE r.exit
                    /\ pc' = "Exit"
                    /\ UNCHANGED fault
    /\ UNCHANGED <<argv, invocation, requests, net, response, configFile>>

Next == Parse \/ Validate \/ Invoke \/ Await \/ UpdateConfig \/ Present

Spec == Init /\ [][Next]_vars

\* main() is one thread of straight-line code: a step that can be taken is taken
LiveSpec == Spec /\ WF_vars(Next)

-----------------------------------------------------------------------------
(* The Request Client on its own: _make_request called with any arguments *)

ClientCalls ==
    {Call(path, <<>>, method, data) :
        path \in {"/api/hello", "/api/content/rescan"},
        method \in {"GET", "POST"},
        data \in {JNull, EmptyDict, JObj([volume |-> JFloat(One)]), JObj([when |-> PyObject])}}

InitRequest ==
    /\ argv = BaseArgv
    /\ pc = "Call"
    /\ invocation = NoInvocation
    /\ requests = <<>>
    /\ net = NoExchange
    /\ response = Unset
    /\ out = <<>>
    /\ err = <<>>
    /\ exitStatus = -1
    /\ fault = "none"
    /\ configFile = "untouched"

\* one call of _make_request: response is what it returned, fault what it raised
CallMakeRequest ==
    /\ pc = "Call"
    /\ \E c \in ClientCalls, n \in Outcomes :
        LET r == MakeRequest(argv.api_url, c.endpoint, c.method, c.data, n)
        IN  /\ invocation' = [invocation EXCEPT !.call = c]
            /\ net' = n
            /\ requests' = requests \o r.sent
            /\ response' = r.value
            /\ fault' = r.raised
    /\ pc' = "Returned"
    /\ UNCHANGED <<argv, out, err, exitStatus, configFile>>

\* RogerCLI.version(cli): the method itself, reached through the class
CallVersion ==
    /\ pc = "Call"
    /\ \E n \in Outcomes :
        LET c == version_call
            r == MakeRequest(argv.api_url, c.endpoint, c.method, c.data, n)
            v == Version(r.value)
        IN  /\ invocation' = [invocation EXCEPT !.command = "version", !.call = c]
            /\ net' = n
            /\ requests' = requests \o r.sent
            /\ response' = v.value
            /\ fault' = IF r.raised # "none" THEN r.raised ELSE v.fault
    /\ pc' = "Returned"
    /\ UNCHANGED <<argv, out, err, exitStatus, configFile>>

NextRequest == CallMakeRequest \/ CallVersion

SpecRequest == InitRequest /\ [][NextRequest]_vars

-----------------------------------------------------------------------------
(* Claims *)

Exited == pc = "Exit"

\* the operation returned an Envelope (a JSON object) to main()
GotEnvelope == response.t = "obj"

Succeeded == GotEnvelope /\ Truthy(Get(response, "success", JNull))

Failed == GotEnvelope /\ ~Truthy(Get(response, "success", JNull))

Printed(stream, line) == \E i \in DOMAIN stream : stream[i] = line

PrintedKind(stream, k) == \E i \in DOMAIN stream : stream[i].k = k

IsCommand(command, sub) == argv.command = command /\ argv.sub = sub


\* C1: whenever the Envelope obtained for a command has success = false, in raw
\* and in formatted mode, the error is printed on the error stream and the exit
\* status is 1; exit status 0 occurs only after a handled success or a help
\* display.
C1_ExitContract ==
    Exited =>
        /\ Failed => exitStatus = 1 /\ PrintedKind(err, "error")
        /\ exitStatus = 0 =>
            \/ PrintedKind(out, "help")
            \/ Succeeded
            \/ argv.command = "update-config" /\ configFile = "written"

\* C2: whatever the HTTP exchange does, the process ends by a normal exit with
\* status 0 or 1, never by an unhandled exception raised during request,
\* augmentation or presentation.
C2_NoUnhandledFault == Exited => fault = "none" /\ exitStatus \in {0, 1}

\* the error text of a returned failure Envelope begins with prefix and the
\* Envelope carries a timestamp
FailureWith(prefix) ==
    /\ Failed
    /\ Has(response, "error") /\ response.f["error"].t = "str"
    /\ response.f["error"].s # <<>> /\ Head(response.f["error"].s) = prefix
    /\ Has(response, "timestamp")

\* the exchange failed to reach the service
ConnectionFailure == net.kind \in {"refused", "connect_timeout"}

\* the service answered, with something that is no JSON document; or the body
\* of the request could not be serialized
OtherFailure ==
    \/ net.kind = "bad_status_line"
    \/ net.kind = "response" /\ net.body.t = "nonjson"
    \/ Truthy(invocation.call.data) /\ ~Serializable(invocation.call.data)

\* C3: request(endpoint, method, body) always returns and never raises; on a
\* connection failure the Envelope is a failure whose error begins "Failed to
\* connect to", on any other failure (malformed response, serialization error,
\* non-JSON body) one whose error begins "Request failed:", each with a
\* timestamp.
C3_RequestEnvelope ==
    (pc = "Returned" /\ invocation.command # "version") =>
        /\ fault = "none"
        /\ OtherFailure => FailureWith(RequestPrefix)
        /\ (ConnectionFailure /\ ~OtherFailure) => FailureWith(ConnectPrefix)

\* C4: when the service answers with the envelope {success: false, error:
\* "boom"}, the Envelope the client returns carries that error text, and the
\* command prints "boom" on the error stream and exits 1.
C4_DomainErrorPassThrough ==
    (Exited /\ net.kind = "response" /\ net.body = BoomEnvelope) =>
        /\ GotEnvelope /\ Get(response, "error", JNull) = Boom
        /\ Printed(err, ErrorLine(Boom))
        /\ exitStatus = 1

\* the service answered 2xx with a JSON object
Answered == net.kind = "response" /\ net.status = 200 /\ net.body.t = "obj"

RemoteSuccess == Answered /\ Truthy(Get(net.body, "success", JNull))

RemoteFailure == Answered /\ ~Truthy(Get(net.body, "success", JNull))

\* C5: the version operation turns a successful remote Envelope with data
\* {x: 1} into one whose data is {x: 1, client: <local version>}, with one
\* request and no more, and returns a remote failure Envelope unchanged.
C5_VersionAugments ==
    (argv.command = "version" /\ pc \in {"Present", "Exit"}) =>
        /\ Len(requests) = 1
        /\ GotEnvelope
        /\ (RemoteSuccess /\ Get(net.body, "data", Absent) = XOne) =>
                Get(response, "data", Absent) = Put(XOne, "client", JStr(RogerVersion))
        /\ RemoteFailure => response = net.body

-----------------------------------------------------------------------------
(* Volume and pan *)

\* the number sent under key k in the body of the request
SentNumber(k) == requests[1].body.json.f[k].x

SentIs(k) ==
    /\ requests[1].body.present
    /\ requests[1].body.json.t = "obj"
    /\ DOMAIN requests[1].body.json.f = {k}
    /\ requests[1].body.json.f[k].t = "float"

FLeq(x, y) == ~FLess(y, x)

Clamp(x, lo, hi) == IF FLess(x, lo) THEN lo ELSE IF FLess(hi, x) THEN hi ELSE x

\* the float the decimal text of h hundredths denotes: Decimal(75) is 0.75
Decimal(h) == FromHundredths(h)

\* C6: track volume sends clamp(v', 0.0, 1.0) with v' = v / 100 if v > 1.0 and
\* v' = v otherwise, always within [0.0, 1.0]: 75 sends 0.75, 0.5 sends 0.5,
\* 150 sends 1.0, -10 sends 0.0; on a success envelope for input 75 the
\* confirmation contains "75%" and the exit status is 0.
C6_VolumeNormalized ==
    IsCommand("track", "volume") =>
        /\ Requested =>
            /\ SentIs("volume")
            /\ SentNumber("volume") =
                    Clamp(IF FLess(Decimal(100), argv.value) THEN FDiv(argv.value, 100) ELSE argv.value,
                          Decimal(0), Decimal(100))
            /\ FLeq(Decimal(0), SentNumber("volume")) /\ FLeq(SentNumber("volume"), Decimal(100))
            /\ argv.value = Decimal(7500) => SentNumber("volume") = Decimal(75)
            /\ argv.value = Decimal(50) => SentNumber("volume") = Decimal(50)
            /\ argv.value = Decimal(15000) => SentNumber("volume") = Decimal(100)
            /\ argv.value = Decimal(-1000) => SentNumber("volume") = Decimal(0)
        /\ (Exited /\ Succeeded /\ argv.value = Decimal(7500)) =>
            /\ Printed(out, Line("volume_set", JStr(<<"75", "%">>)))
            /\ exitStatus = 0

C6_Witness ==
    /\ IsCommand("track", "volume") /\ argv.value = Decimal(7500)
    /\ Exited /\ Succeeded /\ exitStatus = 0
    /\ SentNumber("volume") = Decimal(75)
    /\ Printed(out, Line("volume_set", JStr(<<"75", "%">>)))

\* the label the claim gives a sent pan value, n being int(|sent| * 100)
ClaimedPanLabel(sent) ==
    LET n == FTrunc(FMul([sent EXCEPT !.neg = FALSE], 100))
    IN  IF sent.m = <<>> THEN <<"center">>
        ELSE IF sent.neg THEN <<ToString(n), "% left">>
        ELSE <<ToString(n), "% right">>

-----------------------------------------------------------------------------
(* Query strings *)

\* the index of the first atom d of s, 0 if there is none
FirstIndex(s, d) ==
    IF \E i \in DOMAIN s : s[i] = d THEN CHOOSE i \in DOMAIN s : s[i] = d /\ \A j \in 1..(i - 1) : s[j] # d
    ELSE 0

\* s split at the atoms d
RECURSIVE SplitAt(_, _)
SplitAt(s, d) ==
    LET i == FirstIndex(s, d)
    IN  IF i = 0 THEN <<s>>
        ELSE <<SubSeq(s, 1, i - 1)>> \o SplitAt(SubSeq(s, i + 1, Len(s)), d)

\* an escaped atom decoded, as a receiving server does
UnquoteAtom(a) ==
    CASE a = "+" -> " "
      [] a = "%26" -> "&"
      [] a = "%3D" -> "="
      [] a = "%2B" -> "+"
      [] a = "%25" -> "%"
      [] OTHER -> a

Unquote(s) == [i \in DOMAIN s |-> UnquoteAtom(s[i])]

\* the key=value pairs of a query string, decoded
QueryPairs(q) ==
    IF q = <<>> THEN <<>>
    ELSE LET segs == SplitAt(q, "&")
         IN  [i \in DOMAIN segs |->
                LET e == FirstIndex(segs[i], "=")
                IN  IF e = 0 THEN [key |-> Unquote(segs[i]), value |-> <<>>]
                    ELSE [key |-> Unquote(SubSeq(segs[i], 1, e - 1)),
                          value |-> Unquote(SubSeq(segs[i], e + 1, Len(segs[i])))]]

KeyCount(q, k) == Cardinality({i \in DOMAIN QueryPairs(q) : QueryPairs(q)[i].key = <<k>>})

\* key k appears exactly once in q, with value v
OnceWith(q, k, v) ==
    /\ KeyCount(q, k) = 1
    /\ \E i \in DOMAIN QueryPairs(q) : QueryPairs(q)[i] = [key |-> <<k>>, value |-> v]

FilterOf(k) ==
    CASE k = "type" -> argv.type
      [] k = "creator" -> argv.creator
      [] k = "category" -> argv.category

Filters == {"type", "creator", "category"}

IsContentQuery == argv.command = "content" /\ argv.sub \in {"search", "list"}

FuzzyOnlyWhenTrue ==
    KeyCount(requests[1].url.query, "fuzzy") = IF argv.sub = "search" /\ argv.fuzzy THEN 1 ELSE 0

\* C8: in the URL contentSearch and contentList request, a filter (type,
\* creator, category) that is omitted is no key of the query string, a filter
\* that is present appears exactly once, URL-encoded, and fuzzy appears only
\* when it is true.
C8_FiltersAppearOnce ==
    (IsContentQuery /\ Requested) =>
        /\ \A k \in Filters :
            IF FilterOf(k).none THEN KeyCount(requests[1].url.query, k) = 0
            ELSE OnceWith(requests[1].url.query, k, FilterOf(k).s)
        /\ FuzzyOnlyWhenTrue

\* C8 as amended: a filter that is omitted or given as the empty string is no
\* key of the query string; a filter given a non-empty value appears exactly
\* once, URL-encoded; fuzzy appears only when it is true.
C8_NonEmptyFiltersAppearOnce ==
    (IsContentQuery /\ Requested) =>
        /\ \A k \in Filters :
            IF FilterOf(k).none \/ FilterOf(k).s = <<>>
            THEN KeyCount(requests[1].url.query, k) = 0
            ELSE OnceWith(requests[1].url.query, k, FilterOf(k).s)
        /\ FuzzyOnlyWhenTrue

C8_Witness ==
    /\ IsCommand("content", "search") /\ Requested
    /\ argv.fuzzy
    /\ argv.type = None /\ argv.creator = Str(<<>>)
    /\ argv.category = Str(<<"a", " ", "b", "&", "type", "=", "x">>)
    /\ requests[1].url.query =
        <<"q", "=", "bass", "+", "drum", "&", "limit", "=", "20", "&", "fuzzy", "=", "true", "&",
          "category", "=", "a", "+", "b", "%26", "type", "%3D", "x">>

-----------------------------------------------------------------------------
(* Listings *)

IsEntry(l) == l.k = "entry"

IsMore(l) == l.k = "more"

\* the entries printed, in order
Entries == [i \in DOMAIN SelectSeq(out, IsEntry) |-> SelectSeq(out, IsEntry)[i].v]

\* a formatted listing of a successful envelope whose data is a list
ListingDone(sub) ==
    /\ IsCommand("content", sub) /\ ~argv.raw /\ Exited
    /\ Succeeded /\ Has(response, "data") /\ response.f["data"].t = "list"

Listed == response.f["data"].items

\* the first min(n, 50) entries, and a note of n - 50 more exactly when n > 50
Truncated ==
    /\ Entries = SubSeq(Listed, 1, IF Len(Listed) < 50 THEN Len(Listed) ELSE 50)
    /\ Len(SelectSeq(out, IsMore)) = IF Len(Listed) > 50 THEN 1 ELSE 0
    /\ Len(Listed) > 50 => Printed(out, Line("more", JNum(Len(Listed) - 50)))
    /\ Len(out) = 1 + Len(Entries) + Len(SelectSeq(out, IsMore))
    /\ fault = "none"

\* every entry, and no note
Untruncated ==
    /\ Entries = Listed
    /\ SelectSeq(out, IsMore) = <<>>
    /\ Len(out) = 1 + Len(Entries)
    /\ fault = "none"

\* C9: in formatted mode each of the type, creator and category listings
\* prints the first min(n, 50) of the n entries, one per line, and a line noting
\* n - 50 more if and only if n > 50.
C9_ListingsTruncated ==
    \A sub \in {"types", "creators", "categories"} : ListingDone(sub) => Truncated

\* C9 as amended: the creator and category listings do so; the type listing
\* prints all n entries and never a note.
C9_CreatorsCategoriesTruncated ==
    /\ \A sub \in {"creators", "categories"} : ListingDone(sub) => Truncated
    /\ ListingDone("types") => Untruncated

C9_Witness ==
    /\ ListingDone("creators")
    /\ Len(Listed) = 75
    /\ Len(Entries) = 50
    /\ Printed(out, Line("more", JNum(25)))

\* C10: with --raw, whatever the command, the output is the full Envelope
\* printed as JSON and nothing else; the bespoke renderings appear only
\* without --raw.
C10_RawHonoured ==
    (Exited /\ argv.raw /\ Requested /\ GotEnvelope /\ fault = "none") =>
        out = <<JsonLine(response)>>

-----------------------------------------------------------------------------
(* Request bodies and headers *)

Returned == pc = "Returned"

\* the caller of _make_request passed a body (data is not None)
Supplied == invocation.call.data.t # "null"

HasContentType(q) == <<"Content-Type", "application/json">> \in q.headers

\* C11: every request the Request Client issues carries a body and the header
\* Content-Type: application/json exactly when the caller supplied a body, an
\* empty-object body included; the body sent is the JSON of the body supplied,
\* and with no body supplied no body is sent.
C11_BodyWithContentType ==
    (Returned /\ Requested) =>
        \A i \in DOMAIN requests :
            /\ requests[i].body.present <=> Supplied
            /\ requests[i].body.present => requests[i].body.json = invocation.call.data
            /\ HasContentType(requests[i]) <=> Supplied

-----------------------------------------------------------------------------
(* Help *)

\* the command line names no top-level command, or content / track without a
\* sub-command
HelpCase == argv.command = "" \/ (argv.command \in {"content", "track"} /\ argv.sub = "")

\* the help text of the parser concerned
HelpLine == Line("help", JStr(<<IF argv.command = "" THEN "roger" ELSE argv.command>>))

\* C12: with no top-level command, or content / track without a sub-command,
\* the process prints the relevant help text and exits with status 0, without
\* issuing any HTTP request and without writing the config file.
C12_HelpExitsClean ==
    HelpCase =>
        /\ requests = <<>>
        /\ configFile = "untouched"
        /\ pc \in {"Parse", "Validate", "Exit"}
        /\ Exited => /\ out = <<HelpLine>>
                     /\ err = <<>>
                     /\ exitStatus = 0
                     /\ fault = "none"

C12_Witness ==
    /\ IsCommand("track", "")
    /\ Exited
    /\ out = <<Line("help", JStr(<<"track">>))>>
    /\ exitStatus = 0
    /\ requests = <<>>
    /\ configFile = "untouched"

-----------------------------------------------------------------------------
(* Phases and termination *)

\* the phase main() is in; the wait inside urlopen belongs to Invoke
Phase(p) == IF p = "Await" THEN "Invoke" ELSE p

PhaseOrder == <<"Parse", "Validate", "Invoke", "Present", "Exit">>

PhaseRank(p) == CHOOSE i \in DOMAIN PhaseOrder : PhaseOrder[i] = Phase(p)

\* a step never returns to a phase it left, and enters Validate, Invoke and
\* Present from the phase before only
PhaseAdvances ==
    /\ PhaseRank(pc') >= PhaseRank(pc)
    /\ pc' # pc => pc' # "Invoke" \/ pc = "Validate"
    /\ Phase(pc') # Phase(pc) =>
            \/ pc' = "Exit"
            \/ PhaseRank(pc') = PhaseRank(pc) + 1

\* the service never answered, and the Invoke phase is over
TimedOut == net.kind \in Silent /\ PhaseRank(pc) > PhaseRank("Invoke")

\* C13: every process invocation eventually reaches the Exit phase; the phases
\* occur in the order Parse, Validate, Invoke, Present, Exit, none repeated;
\* and when the remote service never answers, the request timeout ends the
\* Invoke phase with a failure Envelope.
C13_ReachesExit ==
    /\ <>Exited
    /\ [][PhaseAdvances]_vars
    /\ [](TimedOut => (Failed /\ Has(response, "error") /\ fault = "none"))

C13_Witness ==
    /\ Exited
    /\ net.kind = "read_timeout"
    /\ Requested /\ requests[1].timeout = Timeout
    /\ response = FailureEnvelope(RequestPrefix, <<"timed out">>)
    /\ exitStatus = 1

-----------------------------------------------------------------------------
(* One dispatch, one request *)

\* main() has dispatched the command
Dispatched == PhaseRank(pc) >= PhaseRank("Invoke")

====
